---- MODULE Spec2Model ----
(***************************************************************************)
(* Model of the energy-analysis pipeline:                                  *)
(*   - the two source clients of src/data_fetcher.py (fetch_noaa_weather,  *)
(*     fetch_eia_energy) with their per-city retry loops;                  *)
(*   - the orchestrator of src/pipeline.py (run_daily_pipeline,            *)
(*     run_historical_pipeline);                                           *)
(*   - DataProcessor.process_and_validate of src/data_processor.py.        *)
(***************************************************************************)
EXTENDS Integers, Sequences, FiniteSets, TLC

VARIABLES
    \* ---- source clients (data_fetcher.py) ----
    client,      \* which client function is running: "noaa" or "eia"
    cities,      \* CITIES, in configuration order
    ci,          \* index of the city the outer for loop is at
    attempt,     \* fetch_noaa_weather: iterations of `for attempt in range(retries)` used
    retries,     \* fetch_eia_energy: the local `retries`
    backoff,     \* the local `backoff`
    hist,        \* responses received for the current city, in order
    requests,    \* requests.get calls issued for the current city
    waits,       \* time.sleep durations performed for the current city
    all_data,    \* the local list `all_data`
    log,         \* log entries emitted so far (level, city, event)
    cpc,         \* control point of the client
    result,      \* the frame returned by the client
    \* ---- orchestrator (pipeline.py) and DataProcessor (data_processor.py) ----
    mode,              \* "daily" (run_daily_pipeline) or "historical"
    ppc,               \* control point of the run
    pci,               \* index of the city run_daily_pipeline's loop is at
    all_weather_data,  \* the local list of run_daily_pipeline
    all_energy_data,   \* the local list of run_daily_pipeline
    fetches,           \* fetcher calls made so far, per <<source, city>>
    files,             \* the table files under data/raw and data/processed
    report_file,       \* data/processed/quality_report_<run_timestamp>.json
    now,               \* datetime.now(timezone.utc), in hours
    weather_df,        \* the local frame of process_and_validate
    energy_df,         \* the local frame of process_and_validate
    quality_report,    \* self.quality_report
    merged_df,         \* the local frame of process_and_validate
    processed_df,      \* what process_and_validate returned to the pipeline
    stages,            \* the stages the run has entered, in order
    calls,             \* calls of process_and_validate that have returned
    first_run,         \* what the first of these calls returned and wrote
    run_timestamp,     \* the run_timestamp of the run (self.run_timestamp)
    stamped            \* the timestamps in the names of the report and merged files

cvars == <<client, cities, ci, attempt, retries, backoff, hist, requests,
           waits, all_data, log, cpc, result>>

\* the client's variables other than the log
cidle == <<client, cities, ci, attempt, retries, backoff, hist, requests,
           waits, all_data, cpc, result>>

pvars == <<mode, ppc, pci, all_weather_data, all_energy_data, fetches, files,
           report_file, now, weather_df, energy_df, quality_report, merged_df,
           processed_df, stages,
           calls, first_run, run_timestamp, stamped>>

vars == <<cvars, pvars>>

(***************************************************************************)
(* Configuration and program constants                                     *)
(***************************************************************************)
CityNames == {"chicago", "houston"}

\* alphabetical rank of a city name (strings are not ordered in TLC)
CityRank(c) == IF c = "chicago" THEN 1 ELSE 2

CityOrders == {<<"chicago", "houston">>, <<"houston", "chicago">>}

Retries == 5
NoaaBackoff == 3
EiaBackoff == 1
BackoffFactor == 2

NetErrKinds == {"timeout", "connerr"}

(***************************************************************************)
(* Responses of the remote APIs                                            *)
(***************************************************************************)
\* A raw NOAA result record.  ok = FALSE stands for a record the loop body
\* cannot read (a missing "datatype"/"date"/"value" key, a non-numeric value).
NoaaRec(dt, d, v) == [ok |-> TRUE, datatype |-> dt, date |-> d, value |-> v]
BadRec == [ok |-> FALSE, datatype |-> "", date |-> 0, value |-> 0]

NoaaBodies ==
    { <<NoaaRec("TMAX", 1, 250), NoaaRec("TMIN", 1, 100)>>,
      <<NoaaRec("TMAX", 1, 250)>>,
      <<NoaaRec("PRCP", 1, 50)>>,
      <<NoaaRec("TMAX", 1, 250), BadRec>>,
      <<BadRec>> }

\* A raw EIA data row: period and value ("NA" value: neither "value" nor
\* "sales" present).  ok = FALSE: a row r for which r.get(...)[:10] raises.
NA == -999999
EiaRec(d, v) == [ok |-> TRUE, datatype |-> "", date |-> d, value |-> v]

EiaBodies ==
    { <<>>,
      <<EiaRec(1, 70)>>,
      <<EiaRec(1, 70), EiaRec(1, 30)>>,
      <<EiaRec(1, NA)>>,
      <<EiaRec(1, 70), BadRec>> }

\* index of the first record of body the loop cannot read (Len+1 if none)
FirstBad(body) ==
    IF \E i \in 1..Len(body) : ~body[i].ok
    THEN CHOOSE i \in 1..Len(body) :
            ~body[i].ok /\ \A j \in 1..(i-1) : body[j].ok
    ELSE Len(body) + 1

Readable(body) == SubSeq(body, 1, FirstBad(body) - 1)

BodyOk(body) == FirstBad(body) = Len(body) + 1

MapRows(s, f(_)) == [i \in 1..Len(s) |-> f(s[i])]

\* data_fetcher.py 66-73: rows appended to all_data for one NOAA response,
\* up to the first record that raises.  r["value"] / 10 is a true division;
\* the values of NoaaBodies are multiples of 10, whose quotient is exact.
NoaaIsTemp(r) == r.datatype \in {"TMAX", "TMIN"}
NoaaAppended(city, body) ==
    LET row(r) == [city |-> city, date |-> r.date, datatype |-> r.datatype,
                   value |-> r.value \div 10]
    IN MapRows(SelectSeq(Readable(body), NoaaIsTemp), row)

\* data_fetcher.py 173-181: rows appended to all_data for one EIA response,
\* up to the first row that raises
EiaAppended(city, body) ==
    LET row(r) == [city |-> city, date |-> r.date, datatype |-> "energy_usage",
                   value |-> r.value]
    IN MapRows(Readable(body), row)

Entry(level, city, event) == [level |-> level, city |-> city, event |-> event]

City == cities[ci]

(***************************************************************************)
(* fetch_noaa_weather: one iteration of the retry loop per action          *)
(***************************************************************************)
NoaaInLoop == client = "noaa" /\ cpc = "request" /\ attempt < Retries

\* the for loop's next step after a `continue` / a handled network error:
\* another iteration, or the for-else clause (line 88-89) when range is used up
\* a for loop without its else clause: the exhausted loop lets the last error out
NoaaAfterRetryRaising(n) == IF n < Retries THEN "request" ELSE "raised"
NoaaAfterRetry(n) == IF n < Retries THEN "request" ELSE "cityDone"
NoaaExhaustedLog(n, c) ==
    IF n < Retries THEN {} ELSE {Entry("ERROR", c, "all_retries_failed")}

NoaaRetry(kind, event) ==
    /\ NoaaInLoop
    /\ hist' = Append(hist, kind)
    /\ requests' = requests + 1
    /\ waits' = Append(waits, backoff)
    /\ backoff' = backoff * BackoffFactor
    /\ attempt' = attempt + 1
    /\ log' = log \cup {Entry("WARNING", City, event)}
                  \cup NoaaExhaustedLog(attempt + 1, City)
    /\ cpc' = NoaaAfterRetry(attempt + 1)
    /\ UNCHANGED <<client, cities, ci, retries, all_data, result, pvars>>

\* lines 53-57
NoaaRateLimited == NoaaRetry("rate_limit", "rate_limit")

\* lines 78-81
NoaaNetErr == \E k \in NetErrKinds : NoaaRetry(k, "network_error")

NoaaBreak(kind, rows, entry) ==
    /\ NoaaInLoop
    /\ hist' = Append(hist, kind)
    /\ requests' = requests + 1
    /\ all_data' = all_data \o rows
    /\ log' = log \cup {entry}
    /\ cpc' = "cityDone"
    /\ UNCHANGED <<client, cities, ci, attempt, retries, backoff, waits, result, pvars>>

\* lines 59, 82-84: raise_for_status on a non-429 error status
NoaaHttpError == NoaaBreak("http_error", <<>>, Entry("ERROR", City, "http_error"))

\* lines 61, 85-87: response.json() raises
NoaaBadJson == NoaaBreak("bad_json", <<>>, Entry("ERROR", City, "unexpected_error"))

\* an empty result list handled as a failed attempt: a wait and another request
NoaaNoRecordsRetried == NoaaRetry("ok_empty", "no_records")

\* lines 61-64: no records
NoaaNoRecords == NoaaBreak("ok_empty", <<>>, Entry("WARNING", City, "no_records"))

\* lines 66-76, 85-87: the records loop, to its end or to the record that raises
NoaaRecords ==
    \E body \in NoaaBodies :
        NoaaBreak(IF BodyOk(body) THEN "ok" ELSE "malformed",
                  NoaaAppended(City, body),
                  IF BodyOk(body) THEN Entry("INFO", City, "fetched")
                  ELSE Entry("ERROR", City, "unexpected_error"))

(***************************************************************************)
(* fetch_eia_energy: one iteration of `while retries > 0` per action       *)
(***************************************************************************)
EiaInLoop == client = "eia" /\ cpc = "request" /\ retries > 0

\* a `while True` in place of `while retries > 0`: the loop is never left
EiaAfterRetryForever(n) == "request"
EiaAfterRetry(n) == IF n > 0 THEN "request" ELSE "cityDone"

\* lines 160-165
EiaRateLimited ==
    /\ EiaInLoop
    /\ hist' = Append(hist, "rate_limit")
    /\ requests' = requests + 1
    /\ waits' = Append(waits, backoff)
    /\ retries' = retries - 1
    /\ backoff' = backoff * BackoffFactor
    /\ log' = log \cup {Entry("WARNING", City, "rate_limit")}
    /\ cpc' = EiaAfterRetry(retries - 1)
    /\ UNCHANGED <<client, cities, ci, attempt, all_data, result, pvars>>

EiaBreak(kind, rows, entries) ==
    /\ EiaInLoop
    /\ hist' = Append(hist, kind)
    /\ requests' = requests + 1
    /\ all_data' = all_data \o rows
    /\ log' = log \cup entries
    /\ cpc' = "cityDone"
    /\ UNCHANGED <<client, cities, ci, attempt, retries, backoff, waits, result, pvars>>

EiaFailure(kind) == {Entry("ERROR", City, "fetch_failed")}

\* lines 158, 167-168, 185-187: requests.get raises (timeout, connection error),
\* raise_for_status raises, or response.json() raises: `except Exception`
EiaException ==
    \E k \in NetErrKinds \cup {"http_error", "bad_json"} :
        EiaBreak(k, <<>>, EiaFailure(k))

\* lines 168-183, 185-187: the rows loop, to its end or to the row that raises
EiaRecords ==
    \E body \in EiaBodies :
        EiaBreak(IF ~BodyOk(body) THEN "malformed"
                 ELSE IF body = <<>> THEN "ok_empty" ELSE "ok",
                 EiaAppended(City, body),
                 (IF body = <<>> THEN {Entry("WARNING", City, "no_records")} ELSE {})
                 \cup (IF BodyOk(body) THEN {} ELSE EiaFailure("malformed")))

(***************************************************************************)
(* The outer loop over CITIES and the end of the client                    *)
(***************************************************************************)
InitialBackoff(cl) == IF cl = "noaa" THEN NoaaBackoff ELSE EiaBackoff

\* `backoff` set once before the loop over CITIES: the next city goes on with
\* the delay the last one ended with
NextCityKeepBackoff ==
    /\ cpc = "cityDone"
    /\ ci < Len(cities)
    /\ ci' = ci + 1
    /\ attempt' = 0
    /\ retries' = Retries
    /\ hist' = <<>>
    /\ requests' = 0
    /\ waits' = <<>>
    /\ cpc' = "request"
    /\ UNCHANGED <<client, cities, backoff, all_data, log, result, pvars>>

\* lines 31-35 / 124-127: next city, fresh retries and backoff
NextCity ==
    /\ cpc = "cityDone"
    /\ ci < Len(cities)
    /\ ci' = ci + 1
    /\ attempt' = 0
    /\ retries' = Retries
    /\ backoff' = InitialBackoff(client)
    /\ hist' = <<>>
    /\ requests' = 0
    /\ waits' = <<>>
    /\ cpc' = "request"
    /\ UNCHANGED <<client, cities, all_data, log, result, pvars>>

\* lines 99 and 102: (x * 0.18 + 32).round(2), in hundredths of a degree
ToF(v) == IF v = NA THEN NA ELSE v * 18 + 3200

\* line 96: pivot_table(index=["city", "date"], columns="datatype",
\* values="value", aggfunc="first"), one row per key, keys in sorted order
FirstValue(rows, k, dt) ==
    LET m == SelectSeq(rows, LAMBDA r : <<r.city, r.date>> = k /\ r.datatype = dt)
    IN IF m = <<>> THEN NA ELSE m[1].value
PivotKeyLess(a, b) ==
    \/ CityRank(a[1]) < CityRank(b[1])
    \/ a[1] = b[1] /\ a[2] < b[2]
RECURSIVE PivotKeys(_)
PivotKeys(S) ==
    IF S = {} THEN <<>>
    ELSE LET m == CHOOSE k \in S : \A o \in S \ {k} : PivotKeyLess(k, o)
         IN <<m>> \o PivotKeys(S \ {m})

\* lines 91-116: what fetch_noaa_weather returns
NoaaFrame(rows) ==
    LET ks == PivotKeys({<<rows[i].city, rows[i].date>> : i \in 1..Len(rows)})
        has(dt) == \E i \in 1..Len(rows) : rows[i].datatype = dt
    IN IF rows = <<>> THEN [cols |-> {}, rows |-> <<>>]
       ELSE [cols |-> {"city", "date"}
                        \cup (IF has("TMAX") THEN {"TMAX_F"} ELSE {})
                        \cup (IF has("TMIN") THEN {"TMIN_F"} ELSE {}),
             rows |-> [i \in 1..Len(ks) |->
                         [city |-> ks[i][1], date |-> ks[i][2],
                          TMAX_F |-> ToF(FirstValue(rows, ks[i], "TMAX")),
                          TMIN_F |-> ToF(FirstValue(rows, ks[i], "TMIN"))]]]

\* lines 189-210: what fetch_eia_energy returns
EiaFrame(rows) ==
    IF rows = <<>> THEN [cols |-> {}, rows |-> <<>>]
    ELSE [cols |-> {"city", "date", "energy_usage"},
          rows |-> [i \in 1..Len(rows) |->
                      [city |-> rows[i].city, date |-> rows[i].date,
                       energy_usage |-> rows[i].value]]]

\* lines 91-116 / 189-210: the frame built from all_data is returned
ClientReturn ==
    /\ cpc = "cityDone"
    /\ ci = Len(cities)
    /\ result' = IF client = "noaa" THEN NoaaFrame(all_data) ELSE EiaFrame(all_data)
    /\ log' = log \cup (IF all_data = <<>>
                        THEN {Entry("WARNING", "", "no_data_at_all")} ELSE {})
    /\ cpc' = "returned"
    /\ UNCHANGED <<client, cities, ci, attempt, retries, backoff, hist,
                   requests, waits, all_data, pvars>>

(***************************************************************************)
(* Tables (pandas frames): the column names and the rows, in order.        *)
(* Dates are timestamps in hours; NA is a missing value (NaN / None).      *)
(***************************************************************************)
HoursPerDay == 24

Table(cols, rows) == [cols |-> cols, rows |-> rows]
EmptyTable == Table({}, <<>>)

\* DataFrame.empty
IsEmpty(df) == df.rows = <<>> \/ df.cols = {}

WeatherCols == {"city", "date", "temp_high_c", "temp_low_c"}
EnergyCols == {"city", "date", "energy_consumption_mwh"}

WRow(c, d, hi, lo) ==
    [city |-> c, date |-> d, temp_high_c |-> hi, temp_low_c |-> lo]
ERow(c, d, v) == [city |-> c, date |-> d, energy_consumption_mwh |-> v]
\* the columns of the frame fetch_eia_energy builds (data_fetcher.py lines 177-181)
EiaCols == {"city", "date", "energy_usage"}

Key(r) == <<r.city, r.date>>
Keys(rows) == {Key(rows[i]) : i \in 1..Len(rows)}

KeyLess(a, b) ==
    \/ CityRank(a[1]) < CityRank(b[1])
    \/ a[1] = b[1] /\ a[2] < b[2]

RECURSIVE SortKeys(_)
SortKeys(S) ==
    IF S = {} THEN <<>>
    ELSE LET m == CHOOSE k \in S : \A o \in S \ {k} : KeyLess(k, o)
         IN <<m>> \o SortKeys(S \ {m})

RECURSIVE SumValues(_)
SumValues(s) ==
    IF s = <<>> THEN 0
    ELSE (IF Head(s) = NA THEN 0 ELSE Head(s)) + SumValues(Tail(s))

\* a file on disk: a table, or nothing; a file may hold text pandas cannot read
NoFile == [exists |-> FALSE, readable |-> FALSE, table |-> EmptyTable]
FileOf(t) == [exists |-> TRUE, readable |-> TRUE, table |-> t]
CorruptFile == [exists |-> TRUE, readable |-> FALSE, table |-> EmptyTable]

FileNames == {"weather_response.csv", "energy_response.csv",
              "weather_data_.json", "energy_data_.json",
              "merged_data_.csv", "analysis-data.csv"}

(***************************************************************************)
(* DataProcessor (data_processor.py)                                       *)
(***************************************************************************)
\* _load_raw_data, lines 28-42
LoadRawData(f) == IF f.exists /\ f.readable THEN f.table ELSE EmptyTable

\* pd.to_datetime(...).dt.normalize(), line 128
Normalize(t) == (t \div HoursPerDay) * HoursPerDay

\* groupby(['city', 'date'], as_index=False).agg({...: 'sum'}), lines 132-134
GroupSum(rows) ==
    LET ks == SortKeys(Keys(rows))
        same(k) == SelectSeq(rows, LAMBDA r : Key(r) = k)
        vals(k) == [i \in 1..Len(same(k)) |-> same(k)[i].energy_consumption_mwh]
    IN [i \in 1..Len(ks) |-> ERow(ks[i][1], ks[i][2], SumValues(vals(ks[i])))]

\* lines 126-134: the energy frame after cleaning
CleanEnergy(df) ==
    LET dated == [i \in 1..Len(df.rows) |->
                    [df.rows[i] EXCEPT !.date = Normalize(@)]]
    IN IF IsEmpty(df) THEN df
       ELSE IF "energy_consumption_mwh" \in df.cols
            THEN Table(EnergyCols, GroupSum(dated))
            ELSE Table(df.cols, dated)

\* lines 123-134: does cleaning raise KeyError?
CleanRaises(w, e) ==
    \/ ~IsEmpty(w) /\ "date" \notin w.cols
    \/ ~IsEmpty(e) /\ "date" \notin e.cols
    \/ ~IsEmpty(e) /\ "energy_consumption_mwh" \in e.cols /\ "city" \notin e.cols

CountRows(rows, test(_)) == Len(SelectSeq(rows, test))

\* _check_missing_values, lines 44-60
MissingRaises(df, columns) == ~IsEmpty(df) /\ ~(columns \subseteq df.cols)
CheckMissingValues(df, columns) ==
    IF IsEmpty(df) THEN [error |-> "DataFrame is empty.", counts |-> {}]
    ELSE [error |-> "",
          counts |-> {<<c, CountRows(df.rows, LAMBDA r : r[c] = NA)>> :
                        c \in {x \in columns :
                                 CountRows(df.rows, LAMBDA r : r[x] = NA) > 0}}]

MaxTemp == 55
MinTemp == -45
MinEnergy == 0
MaxDaysOld == 3

\* _check_outliers, lines 62-88
TempOutlier(r) ==
    \/ r.temp_high_c # NA /\ r.temp_high_c > MaxTemp
    \/ r.temp_low_c # NA /\ r.temp_low_c < MinTemp
EnergyOutlier(r) ==
    r.energy_consumption_mwh # NA /\ r.energy_consumption_mwh < MinEnergy
OutliersRaises(w, e) ==
    \/ ~IsEmpty(w) /\ ~({"temp_high_c", "temp_low_c"} \subseteq w.cols)
    \/ ~IsEmpty(e) /\ "energy_consumption_mwh" \notin e.cols
CheckOutliers(w, e) ==
    (IF ~IsEmpty(w) /\ CountRows(w.rows, TempOutlier) > 0
     THEN {<<"temperature_outliers_found", CountRows(w.rows, TempOutlier)>>}
     ELSE {})
    \cup
    (IF ~IsEmpty(e) /\ CountRows(e.rows, EnergyOutlier) > 0
     THEN {<<"energy_outliers_found", CountRows(e.rows, EnergyOutlier)>>}
     ELSE {})

MaxOf(S) == CHOOSE m \in S : \A o \in S : o <= m

\* _check_data_freshness, lines 90-114
NoFreshness == [error |-> "", latest_date_found |-> 0,
                days_since_latest_date |-> 0, is_stale |-> FALSE]
\* the test of line 108 as days_diff >= max_days_old
CheckDataFreshnessGe(df, t) ==
    IF IsEmpty(df) \/ "date" \notin df.cols
    THEN [NoFreshness EXCEPT
            !.error = "DataFrame is empty or missing 'date' column."]
    ELSE LET latest == MaxOf({df.rows[i].date : i \in 1..Len(df.rows)})
             days_diff == (t - latest) \div HoursPerDay
         IN [error |-> "",
             latest_date_found |-> latest \div HoursPerDay,
             days_since_latest_date |-> days_diff,
             is_stale |-> days_diff >= MaxDaysOld]
CheckDataFreshness(df, t) ==
    IF IsEmpty(df) \/ "date" \notin df.cols
    THEN [NoFreshness EXCEPT
            !.error = "DataFrame is empty or missing 'date' column."]
    ELSE LET latest == MaxOf({df.rows[i].date : i \in 1..Len(df.rows)})
             days_diff == (t - latest) \div HoursPerDay
         IN [error |-> "",
             latest_date_found |-> latest \div HoursPerDay,
             days_since_latest_date |-> days_diff,
             is_stale |-> days_diff > MaxDaysOld]

\* lines 137-141: the five checks, in order; a check that raises KeyError
\* ends the run of checks, the sections written before it stay in the report
ChecksRaise(w, e) ==
    \/ MissingRaises(w, {"temp_high_c", "temp_low_c"})
    \/ MissingRaises(e, {"energy_consumption_mwh"})
    \/ OutliersRaises(w, e)
SectionsDone(w, e) ==
    IF MissingRaises(w, {"temp_high_c", "temp_low_c"}) THEN {}
    ELSE IF MissingRaises(e, {"energy_consumption_mwh"})
         THEN {"missing_values_weather"}
    ELSE IF OutliersRaises(w, e)
         THEN {"missing_values_weather", "missing_values_energy"}
    ELSE {"missing_values_weather", "missing_values_energy", "outliers",
          "freshness_weather", "freshness_energy"}
QualityReport(w, e, t) ==
    LET done == SectionsDone(w, e)
        we == IF "missing_values_weather" \in done THEN w ELSE EmptyTable
        ee == IF "missing_values_energy" \in done THEN e ELSE EmptyTable
        wo == IF "outliers" \in done THEN w ELSE EmptyTable
        eo == IF "outliers" \in done THEN e ELSE EmptyTable
    IN [sections |-> done,
        missing_values_weather |-> CheckMissingValues(we, {"temp_high_c", "temp_low_c"}),
        missing_values_energy |-> CheckMissingValues(ee, {"energy_consumption_mwh"}),
        outliers |-> CheckOutliers(wo, eo),
        freshness_weather |-> CheckDataFreshness(wo, t),
        freshness_energy |-> CheckDataFreshness(eo, t)]
\* self.quality_report[...] = summary (lines 59, 87, 113): a check replaces its
\* own section, the sections of checks that did not run stay as they were
KeepSections(old, new) ==
    LET pick(k) == IF k \in new.sections THEN new[k] ELSE old[k]
    IN [sections |-> old.sections \cup new.sections,
        missing_values_weather |-> pick("missing_values_weather"),
        missing_values_energy |-> pick("missing_values_energy"),
        outliers |-> pick("outliers"),
        freshness_weather |-> pick("freshness_weather"),
        freshness_energy |-> pick("freshness_energy")]
\* self.quality_report = {} (line 25)
EmptyReport == [QualityReport(EmptyTable, EmptyTable, 0) EXCEPT !.sections = {}]
NoReport == [present |-> FALSE, report |-> EmptyReport]
ReportOf(q) == [present |-> TRUE, report |-> q]

\* the derived column of line 168; a value in halves of a degree is kept exact
\* as numerator and denominator
\* the average taken with `//`, an integer division, in place of `/`
TempAvgFloorDiv(hi, lo) ==
    IF hi = NA \/ lo = NA THEN [num |-> NA, den |-> 2]
    ELSE [num |-> (hi + lo) \div 2, den |-> 1]
TempAvg(hi, lo) ==
    IF hi = NA \/ lo = NA THEN [num |-> NA, den |-> 2]
    ELSE [num |-> hi + lo, den |-> 2]

MRow(w, e) ==
    [city |-> w.city, date |-> w.date, temp_high_c |-> w.temp_high_c,
     temp_low_c |-> w.temp_low_c,
     energy_consumption_mwh |-> e.energy_consumption_mwh]

\* pd.merge(weather_df, energy_df, on=['city', 'date'], how='inner'), line 159:
\* the left rows in order, each with its matching right rows in order
RECURSIVE JoinRows(_, _)
JoinRows(wrows, erows) ==
    IF wrows = <<>> THEN <<>>
    ELSE LET w == Head(wrows)
             m == SelectSeq(erows, LAMBDA e : Key(e) = Key(w))
         IN [i \in 1..Len(m) |-> MRow(w, m[i])] \o JoinRows(Tail(wrows), erows)

MergedCols == WeatherCols \cup EnergyCols

\* line 168
WithTempAvg(rows) ==
    [i \in 1..Len(rows) |->
        [city |-> rows[i].city, date |-> rows[i].date,
         temp_high_c |-> rows[i].temp_high_c, temp_low_c |-> rows[i].temp_low_c,
         energy_consumption_mwh |-> rows[i].energy_consumption_mwh,
         temp_avg_c |-> TempAvg(rows[i].temp_high_c, rows[i].temp_low_c)]]

(***************************************************************************)
(* process_and_validate, lines 116-177, in its steps                       *)
(***************************************************************************)
NoneFrame == [none |-> TRUE, table |-> EmptyTable]
Frame(t) == [none |-> FALSE, table |-> t]

\* lines 120-121
Load ==
    /\ ppc = "load"
    /\ weather_df' = LoadRawData(files["weather_data_.json"])
    /\ energy_df' = LoadRawData(files["energy_data_.json"])
    /\ log' = log
         \cup (IF ~files["weather_data_.json"].exists
               THEN {Entry("WARNING", "", "weather_file_not_found")} ELSE {})
         \cup (IF ~files["energy_data_.json"].exists
               THEN {Entry("WARNING", "", "energy_file_not_found")} ELSE {})
         \cup (IF CorruptFile \in {files["weather_data_.json"],
                                   files["energy_data_.json"]}
               THEN {Entry("ERROR", "", "load_failed")} ELSE {})
    /\ ppc' = "clean"
    /\ UNCHANGED cidle
    /\ UNCHANGED <<mode, calls, first_run, run_timestamp, stamped,
                   pci, all_weather_data, all_energy_data, fetches, files,
                   report_file, now, quality_report, merged_df, processed_df,
                   stages>>

\* strftime('%Y%m%d_%H%M%S') of the clock (pipeline.py lines 26, 71): the day
\* and the time of day
Stamp(t) == <<t \div HoursPerDay, t % HoursPerDay>>
NoStamp == <<>>
\* f"quality_report_{self.run_timestamp}.json", line 146
ReportStamp(ts) == ts
\* f"merged_data_{self.run_timestamp}.csv", line 171
MergedStamp(ts) == ts

\* where the run goes after each step of process_and_validate
AfterClean(w, e) == IF CleanRaises(w, e) THEN "raised" ELSE "validate"
\* the checks followed by the merge, the report never saved
AfterChecksSkipReport(w, e) == IF ChecksRaise(w, e) THEN "raised" ELSE "merge"
AfterChecks(w, e) == IF ChecksRaise(w, e) THEN "raised" ELSE "save_report"
AfterReport == "merge"

\* lines 123-134
Clean ==
    /\ ppc = "clean"
    /\ ppc' = AfterClean(weather_df, energy_df)
    /\ energy_df' = IF CleanRaises(weather_df, energy_df) THEN energy_df
                    ELSE CleanEnergy(energy_df)
    /\ UNCHANGED <<cvars, mode, calls, first_run, run_timestamp, stamped,
                   pci, all_weather_data, all_energy_data, fetches,
                   files, report_file, now, weather_df, quality_report,
                   merged_df, processed_df, stages>>

\* lines 136-141
Validate ==
    /\ ppc = "validate"
    /\ stages' = Append(stages, "VALIDATING")
    /\ quality_report' = KeepSections(quality_report,
                                       QualityReport(weather_df, energy_df, now))
    /\ ppc' = AfterChecks(weather_df, energy_df)
    /\ UNCHANGED <<cvars, mode, calls, first_run, run_timestamp, stamped,
                   pci, all_weather_data, all_energy_data, fetches,
                   files, report_file, now, weather_df, energy_df, merged_df,
                   processed_df>>

\* lines 143-149
SaveReport ==
    /\ ppc = "save_report"
    /\ stages' = Append(stages, "REPORTING")
    /\ report_file' = ReportOf(quality_report)
    /\ stamped' = [stamped EXCEPT !.report = ReportStamp(run_timestamp)]
    /\ ppc' = AfterReport
    /\ UNCHANGED <<cvars, mode, calls, first_run, run_timestamp,
                   pci, all_weather_data, all_energy_data, fetches,
                   files, now, weather_df, energy_df, quality_report, merged_df,
                   processed_df>>

\* how='left' in place of how='inner': weather rows without a counterpart stay
RECURSIVE LeftJoinRows(_, _)
LeftJoinRows(wrows, erows) ==
    IF wrows = <<>> THEN <<>>
    ELSE LET w == Head(wrows)
             m == SelectSeq(erows, LAMBDA e : Key(e) = Key(w))
         IN (IF m = <<>> THEN <<MRow(w, ERow(w.city, w.date, NA))>>
             ELSE [i \in 1..Len(m) |-> MRow(w, m[i])])
            \o LeftJoinRows(Tail(wrows), erows)
MergeFramesLeft(w, e) ==
    Table(MergedCols \cup {"temp_avg_c"}, WithTempAvg(LeftJoinRows(w.rows, e.rows)))

\* the merge followed by a filter that drops the rows counted as outliers
MergeFramesNoOutliers(w, e) ==
    Table(MergedCols \cup {"temp_avg_c"},
          WithTempAvg(SelectSeq(JoinRows(w.rows, e.rows),
                                LAMBDA r : ~TempOutlier(r) /\ ~EnergyOutlier(r))))

\* line 159 and 168
MergeFrames(w, e) ==
    Table(MergedCols \cup {"temp_avg_c"}, WithTempAvg(JoinRows(w.rows, e.rows)))

\* the level of the message of line 163
EmptyMergeLevel == "WARNING"

\* what lines 151-177 log
MergeLog(w, e) ==
    IF IsEmpty(w) \/ IsEmpty(e)
    THEN {Entry("WARNING", "", "skipping_merge")}
    ELSE IF JoinRows(w.rows, e.rows) = <<>>
         THEN {Entry(EmptyMergeLevel, "", "merged_empty")}
         ELSE {Entry("INFO", "", "merged_saved")}

\* the merge without the test of line 162: an empty join is returned and saved
MergeReturnNoEmptyTest(w, e) ==
    IF IsEmpty(w) \/ IsEmpty(e) THEN NoneFrame ELSE Frame(MergeFrames(w, e))

\* what lines 151-177 return
MergeReturn(w, e) ==
    IF IsEmpty(w) \/ IsEmpty(e) \/ JoinRows(w.rows, e.rows) = <<>>
    THEN NoneFrame
    ELSE Frame(MergeFrames(w, e))

\* merged_df.to_csv(output_path, index=False), line 173, with the file appended
\* to in place of overwritten
WriteCsvAppend(old, t) == FileOf(Table(t.cols, old.table.rows \o t.rows))

\* merged_df.to_csv(output_path, index=False), line 173: the file is replaced
WriteCsv(old, t) == FileOf(t)

\* what a call of process_and_validate leaves behind: the report file, the
\* returned frame and the merged file
RunOutput(report, frame, merged) ==
    [report |-> report, frame |-> frame, merged |-> merged]
NoRun == RunOutput(NoReport, NoneFrame, NoFile)

\* lines 151-177
Merge ==
    /\ ppc = "merge"
    /\ stages' = Append(stages, "MERGING")
    /\ log' = log \cup MergeLog(weather_df, energy_df)
    /\ processed_df' = MergeReturn(weather_df, energy_df)
    /\ merged_df' = IF IsEmpty(weather_df) \/ IsEmpty(energy_df) THEN merged_df
                    ELSE IF JoinRows(weather_df.rows, energy_df.rows) = <<>>
                         THEN Table(MergedCols, <<>>)
                         ELSE MergeFrames(weather_df, energy_df)
    /\ files' = IF MergeReturn(weather_df, energy_df).none THEN files
                ELSE [files EXCEPT !["merged_data_.csv"] =
                        WriteCsv(@, MergeReturn(weather_df, energy_df).table)]
    /\ calls' = calls + 1
    /\ first_run' = IF calls = 0
                    THEN RunOutput(report_file, MergeReturn(weather_df, energy_df),
                                   files'["merged_data_.csv"])
                    ELSE first_run
    /\ stamped' = IF MergeReturn(weather_df, energy_df).none THEN stamped
                  ELSE [stamped EXCEPT !.merged = MergedStamp(run_timestamp)]
    /\ ppc' = "finish"
    /\ UNCHANGED <<cidle, mode, pci, all_weather_data, all_energy_data, fetches,
                   report_file, now, weather_df, energy_df, quality_report,
                   run_timestamp>>

(***************************************************************************)
(* pipeline.py                                                             *)
(***************************************************************************)
\* the to_csv of lines 62 / 78 without the test of lines 60 / 76
SavedAlways(pdf) == TRUE
Saved(pdf) == ~pdf.none /\ ~IsEmpty(pdf.table)

\* the end of a run, in the words of the stage machine
Outcome(pdf) == IF Saved(pdf) THEN "DONE" ELSE "PARTIAL"

\* run_daily_pipeline lines 58-67, run_historical_pipeline lines 75-83
Finish ==
    /\ ppc = "finish"
    /\ files' = IF Saved(processed_df)
                THEN [files EXCEPT !["analysis-data.csv"] = FileOf(processed_df.table)]
                ELSE files
    /\ log' = log \cup {IF Saved(processed_df)
                        THEN Entry("INFO", "", "processed_saved")
                        ELSE Entry("WARNING", "", "no_processed_data")}
    /\ stages' = Append(stages, Outcome(processed_df))
    /\ ppc' = "done"
    /\ UNCHANGED <<cidle, mode, calls, first_run, run_timestamp, stamped,
                   pci, all_weather_data, all_energy_data, fetches,
                   report_file, now, weather_df, energy_df, quality_report,
                   merged_df, processed_df>>

\* run_historical_pipeline lines 69-73: no fetch, `days` is not used
HistoricalStart ==
    /\ ppc = "start"
    /\ mode = "historical"
    /\ run_timestamp' = Stamp(now)
    /\ ppc' = "load"
    /\ UNCHANGED <<cvars, mode, calls, first_run, stamped,
                   pci, all_weather_data, all_energy_data, fetches,
                   files, report_file, now, weather_df, energy_df,
                   quality_report, merged_df, processed_df, stages>>

\* run_daily_pipeline lines 25-28
DailyStart ==
    /\ ppc = "start"
    /\ mode = "daily"
    /\ pci' = 1
    /\ run_timestamp' = Stamp(now)
    /\ stages' = Append(stages, "FETCHING")
    /\ ppc' = "fetch_weather"
    /\ UNCHANGED <<cvars, mode, calls, first_run, stamped,
                   all_weather_data, all_energy_data, fetches,
                   files, report_file, now, weather_df, energy_df,
                   quality_report, merged_df, processed_df>>

\* What a call of DataFetcher.fetch_weather_data / fetch_energy_data can do:
\* raise, return nothing, or return the city's records.
FetchOutcomes(source, c) ==
    {[kind |-> "raise", recs |-> <<>>],
     [kind |-> "nothing", recs |-> <<>>],
     [kind |-> "records",
      recs |-> IF source = "weather" THEN <<WRow(c, HoursPerDay, 40, 10)>>
               ELSE <<ERow(c, HoursPerDay, 70)>>]}

\* lines 32-37 and 38-43: what one try block does with the outcome of its call
Extended(acc, o) == IF o.kind = "records" THEN acc \o o.recs ELSE acc
FetchLog(source, c, o) ==
    IF o.kind = "raise"
    THEN {Entry("ERROR", c, IF source = "weather" THEN "weather_fetch_failed"
                            ELSE "energy_fetch_failed")}
    ELSE {}

PCity == cities[pci]

\* lines 32-37
FetchWeather ==
    /\ ppc = "fetch_weather"
    /\ \E o \in FetchOutcomes("weather", PCity) :
         /\ all_weather_data' = Extended(all_weather_data, o)
         /\ log' = log \cup FetchLog("weather", PCity, o)
    /\ fetches' = [fetches EXCEPT ![<<"weather", PCity>>] = @ + 1]
    /\ ppc' = "fetch_energy"
    /\ UNCHANGED <<cidle, mode, calls, first_run, run_timestamp, stamped,
                   pci, all_energy_data, files, report_file, now,
                   weather_df, energy_df, quality_report, merged_df,
                   processed_df, stages>>

\* the for loop of line 31 after the second try block
AfterCity(i, n) == IF i < n THEN "fetch_weather" ELSE "save_raw"

\* lines 38-43
FetchEnergy ==
    /\ ppc = "fetch_energy"
    /\ \E o \in FetchOutcomes("energy", PCity) :
         /\ all_energy_data' = Extended(all_energy_data, o)
         /\ log' = log \cup FetchLog("energy", PCity, o)
    /\ fetches' = [fetches EXCEPT ![<<"energy", PCity>>] = @ + 1]
    /\ ppc' = AfterCity(pci, Len(cities))
    /\ pci' = IF pci < Len(cities) THEN pci + 1 ELSE pci
    /\ UNCHANGED <<cidle, mode, calls, first_run, run_timestamp, stamped,
                   all_weather_data, files, report_file, now,
                   weather_df, energy_df, quality_report, merged_df,
                   processed_df, stages>>

\* lines 45-56: the raw responses, and the processor of line 55
SaveRaw ==
    /\ ppc = "save_raw"
    /\ files' = [files EXCEPT
          !["weather_response.csv"] =
              IF all_weather_data # <<>>
              THEN FileOf(Table(WeatherCols, all_weather_data)) ELSE @,
          !["energy_response.csv"] =
              IF all_energy_data # <<>>
              THEN FileOf(Table(EnergyCols, all_energy_data)) ELSE @]
    /\ ppc' = "load"
    /\ UNCHANGED <<cvars, mode, calls, first_run, run_timestamp, stamped,
                   pci, all_weather_data, all_energy_data, fetches,
                   report_file, now, weather_df, energy_df, quality_report,
                   merged_df, processed_df, stages>>

(***************************************************************************)
(* Initial states and specifications                                       *)
(***************************************************************************)
MaxRows == 2

WeatherSamples ==
    {WRow("chicago", 24, 40, 10), WRow("chicago", 48, 60, 11),
     WRow("houston", 24, -50, NA), WRow("chicago", 36, 40, -50)}
EnergySamples ==
    {ERow("chicago", 24, 70), ERow("chicago", 30, 30),
     ERow("houston", 24, -5), ERow("chicago", 48, NA)}

SeqsUpTo(S, n) == UNION {[1..k -> S] : k \in 0..n}
UniqueKeys(rows) == Cardinality(Keys(rows)) = Len(rows)

\* The raw files of a run, weather_data_<ts>.json and energy_data_<ts>.json,
\* are written by the fetcher.  A weather file has one row per (city, date);
\* an energy file may hold several readings of one day.
WeatherFiles(n) ==
    {NoFile, CorruptFile,
     FileOf(Table(WeatherCols \ {"temp_low_c"}, <<WRow("chicago", 24, 40, NA)>>)),
     FileOf(Table(WeatherCols \ {"date"}, <<WRow("chicago", 0, 40, 10)>>))}
    \cup {FileOf(Table(WeatherCols, r)) :
            r \in {x \in SeqsUpTo(WeatherSamples, n) : UniqueKeys(x)}}
EnergyFiles(n) ==
    {NoFile,
     FileOf(Table(EnergyCols \ {"energy_consumption_mwh"},
                  <<ERow("chicago", 24, NA)>>)),
     FileOf(Table(EiaCols, <<ERow("chicago", 24, NA), ERow("chicago", 30, NA)>>))}
    \cup {FileOf(Table(EnergyCols, r)) : r \in SeqsUpTo(EnergySamples, n)}

\* the files a whole pipeline run is followed on
PipeWeatherFiles ==
    {NoFile,
     FileOf(Table(WeatherCols, <<WRow("chicago", 24, 40, 10)>>)),
     FileOf(Table(WeatherCols, <<WRow("chicago", 48, 60, 10)>>)),
     FileOf(Table(WeatherCols \ {"temp_low_c"}, <<WRow("chicago", 24, 40, NA)>>))}
PipeEnergyFiles ==
    {NoFile,
     FileOf(Table(EnergyCols, <<ERow("chicago", 24, 70)>>)),
     FileOf(Table(EnergyCols, <<ERow("houston", 24, -5)>>))}

\* an analysis-data.csv left by an earlier run
OldAnalysis == FileOf(Table(MergedCols \cup {"temp_avg_c"}, <<>>))

NowSamples == {60, 120, 144}

ClientIdle ==
    /\ ci = 1
    /\ attempt = 0
    /\ retries = Retries
    /\ hist = <<>>
    /\ requests = 0
    /\ waits = <<>>
    /\ all_data = <<>>
    /\ log = {}
    /\ result = [cols |-> {}, rows |-> <<>>]

PipeIdle ==
    /\ pci = 1
    /\ all_weather_data = <<>>
    /\ all_energy_data = <<>>
    /\ fetches = [k \in {"weather", "energy"} \X CityNames |-> 0]
    /\ report_file = NoReport
    /\ weather_df = EmptyTable
    /\ energy_df = EmptyTable
    /\ quality_report = EmptyReport
    /\ merged_df = EmptyTable
    /\ processed_df = NoneFrame
    /\ stages = <<>>
    /\ calls = 0
    /\ first_run = NoRun
    /\ run_timestamp = NoStamp
    /\ stamped = [report |-> NoStamp, merged |-> NoStamp]

FilesInit(wf, ef, af) ==
    [n \in FileNames |->
        IF n = "weather_data_.json" THEN wf
        ELSE IF n = "energy_data_.json" THEN ef
        ELSE IF n = "analysis-data.csv" THEN af
        ELSE NoFile]

\* one call of fetch_noaa_weather or of fetch_eia_energy
ClientInit ==
    /\ client \in {"noaa", "eia"}
    /\ cities \in CityOrders
    /\ backoff = InitialBackoff(client)
    /\ cpc = "request"
    /\ ClientIdle
    /\ PipeIdle
    /\ mode = "none"
    /\ ppc = "idle"
    /\ now = 0
    /\ files = FilesInit(NoFile, NoFile, NoFile)

ClientNext ==
    \/ NoaaRateLimited
    \/ NoaaNetErr
    \/ NoaaHttpError
    \/ NoaaBadJson
    \/ NoaaNoRecords
    \/ NoaaRecords
    \/ EiaRateLimited
    \/ EiaException
    \/ EiaRecords
    \/ NextCity
    \/ ClientReturn

\* one run of run_daily_pipeline or of run_historical_pipeline
PipeInit ==
    /\ client = "none"
    /\ cities \in CityOrders
    /\ backoff = 0
    /\ cpc = "idle"
    /\ ClientIdle
    /\ PipeIdle
    /\ mode \in {"daily", "historical"}
    /\ ppc = "start"
    /\ now \in NowSamples
    /\ \E wf \in PipeWeatherFiles, ef \in PipeEnergyFiles, af \in {NoFile, OldAnalysis} :
          files = FilesInit(wf, ef, af)

ProcNext ==
    \/ HistoricalStart
    \/ Load
    \/ Clean
    \/ Validate
    \/ SaveReport
    \/ Merge
    \/ Finish

\* a further call of process_and_validate on the same DataProcessor, with the
\* raw files, the clock and self.quality_report as the first call left them
RunAgain ==
    /\ ppc = "done"
    /\ calls = 1
    /\ ppc' = "load"
    /\ weather_df' = EmptyTable
    /\ energy_df' = EmptyTable
    /\ merged_df' = EmptyTable
    /\ processed_df' = NoneFrame
    /\ UNCHANGED <<cvars, mode, calls, first_run, run_timestamp, stamped, pci,
                   all_weather_data,
                   all_energy_data, fetches, files, report_file, now,
                   quality_report, stages>>

TwiceNext ==
    \/ ProcNext
    \/ RunAgain

PipeNext ==
    \/ DailyStart
    \/ FetchWeather
    \/ FetchEnergy
    \/ SaveRaw
    \/ ProcNext

\* one run of run_historical_pipeline, on every raw file within the bounds
ProcInit ==
    /\ client = "none"
    /\ cities = <<"chicago", "houston">>
    /\ backoff = 0
    /\ cpc = "idle"
    /\ ClientIdle
    /\ PipeIdle
    /\ mode = "historical"
    /\ ppc = "start"
    /\ now \in NowSamples
    /\ \E wf \in WeatherFiles(MaxRows), ef \in EnergyFiles(MaxRows),
          af \in {NoFile, OldAnalysis} :
          files = FilesInit(wf, ef, af)

Init == ClientInit
Next == ClientNext
Spec == Init /\ [][Next]_vars

\* A client call is one sequential program: every requests.get carries
\* timeout=30 (lines 51, 158) and every sleep ends, so a step that can be taken
\* is taken.
SpecLive == Init /\ [][Next]_vars /\ WF_vars(Next)

SpecPipe == PipeInit /\ [][PipeNext]_vars

SpecProc == ProcInit /\ [][ProcNext]_vars

SpecTwice == ProcInit /\ [][TwiceNext]_vars


(***************************************************************************)
(* Properties                                                              *)
(***************************************************************************)
Range(s) == {s[i] : i \in 1..Len(s)}
AllIn(s, K) == \A i \in 1..Len(s) : s[i] \in K
Last(s) == s[Len(s)]
Front(s) == SubSeq(s, 1, Len(s) - 1)
IsPrefix(s, t) == Len(s) <= Len(t) /\ s = SubSeq(t, 1, Len(s))

\* the rows of all_data that belong to city c
CityRows(c) == SelectSeq(all_data, LAMBDA r : r.city = c)

ClientRunning == cpc \in {"request", "cityDone", "returned", "raised"}
RetryableKinds == NetErrKinds \cup {"rate_limit"}
NonRetryableKinds == {"http_error", "bad_json", "malformed"}

\* the rows a wholly readable response body gives the current city
SuccessRows ==
    IF client = "noaa"
    THEN {NoaaAppended(City, b) : b \in {x \in NoaaBodies : BodyOk(x)}}
    ELSE {EiaAppended(City, b) : b \in {x \in EiaBodies : BodyOk(x)}}

\* C1: in both clients, a city whose first k < 5 calls end in a timeout or a
\* connection error is called again after each of them, and when call k+1
\* succeeds the city has its records and exactly k+1 requests were issued.
C1_RetriesUntilSuccess ==
    ClientRunning =>
      /\ (hist # <<>> /\ Len(hist) < Retries /\ AllIn(hist, NetErrKinds))
            => cpc = "request"
      /\ (hist # <<>> /\ Last(hist) = "ok" /\ AllIn(Front(hist), NetErrKinds))
            => /\ requests = Len(Front(hist)) + 1
               /\ CityRows(City) \in SuccessRows

\* C2: a city whose 5 attempts all fail (timeouts, connection errors, 429 in
\* any mix) ends its loop without an exception, has no row in all_data, and
\* the client can go on: to the next city, or to its return after the last.
C2_ExhaustionIsEmptyOutcome ==
    (ClientRunning /\ Len(hist) = Retries /\ AllIn(hist, RetryableKinds)) =>
      /\ cpc \in {"cityDone", "returned"}
      /\ CityRows(City) = <<>>
      /\ (cpc = "cityDone" /\ ci < Len(cities)) => ENABLED NextCity
      /\ (cpc = "cityDone" /\ ci = Len(cities)) => ENABLED ClientReturn

\* C2 witness: the second city of fetch_noaa_weather has used up its attempts
\* on a mix of all three failures, the rows of the first city are in all_data
C2_Witness ==
    /\ client = "noaa" /\ ci = 2 /\ cpc = "cityDone"
    /\ Len(hist) = Retries
    /\ Range(hist) = RetryableKinds
    /\ CityRows(cities[1]) # <<>>

\* C3: after a non-retryable error (a non-429 error status, a malformed
\* response) the city's loop has ended with no further request and no wait,
\* and the city has no row in all_data.
C3_NonRetryableEndsEmpty ==
    (ClientRunning /\ hist # <<>> /\ Last(hist) \in NonRetryableKinds) =>
      /\ cpc \in {"cityDone", "returned"}
      /\ requests = Len(hist)
      /\ Len(waits) = Len(hist) - 1
      /\ CityRows(City) = <<>>

\* C4: a step in which a city's call fails leaves all_data as it was (the rows
\* of earlier cities stay, the failing city adds none), logs the failure, and
\* does not end the client with an exception.
C4_FailureLeavesDataAlone ==
    [][(cpc = "request" /\ Len(hist') = Len(hist) + 1
          /\ Last(hist') \in RetryableKinds \cup NonRetryableKinds)
       => /\ all_data' = all_data
          /\ \E e \in log' : e.city = City /\ e.level \in {"WARNING", "ERROR"}
          /\ cpc' \in {"request", "cityDone"}]_vars

\* C5: no pipeline run ends with an exception passed to its caller.
C5_RunNeverRaises == ppc # "raised"

StageRank(st) ==
    CASE st = "FETCHING" -> 1
      [] st = "VALIDATING" -> 2
      [] st = "MERGING" -> 3
      [] st = "REPORTING" -> 4
      [] OTHER -> 5

StagesOf(m) ==
    (IF m = "daily" THEN <<"FETCHING">> ELSE <<>>)
    \o <<"VALIDATING", "REPORTING", "MERGING">>

JoinIsEmpty == JoinRows(weather_df.rows, energy_df.rows) = <<>>

C7_LoadedIsFetched ==
    (mode = "daily" /\ ppc = "clean") =>
      /\ weather_df.rows = all_weather_data
      /\ energy_df.rows = all_energy_data

\* C8: when a historical run starts to load and validate, each source has
\* been fetched once for every configured city.
C8_HistoricalFetchesFirst ==
    (mode = "historical" /\ ppc \notin {"start", "idle"}) =>
      \A k \in DOMAIN fetches : fetches[k] = 1

AllKeys == CityNames \X (0..(3 * HoursPerDay))
RowsWithKey(rows, k) == Len(SelectSeq(rows, LAMBDA r : Key(r) = k))
Merged == ppc \in {"finish", "done"}

\* C9: after the merge, a (city, date) key has one row in the merged frame if
\* it is a key of both frames given to the merge, and no row otherwise.
C9_InnerJoinKeys ==
    Merged =>
      \A k \in AllKeys :
        RowsWithKey(merged_df.rows, k) =
          IF k \in Keys(weather_df.rows) \cap Keys(energy_df.rows) THEN 1 ELSE 0

\* C9 witness: a merge with a common key, a weather-only key and an energy-only key
C9_Witness ==
    /\ Merged
    /\ merged_df.rows # <<>>
    /\ Keys(weather_df.rows) \ Keys(energy_df.rows) # {}
    /\ Keys(energy_df.rows) \ Keys(weather_df.rows) # {}

EmptyJoinCase ==
    Merged /\ ~IsEmpty(weather_df) /\ ~IsEmpty(energy_df) /\ JoinIsEmpty

RowOrders(s) ==
    {[i \in 1..Len(s) |-> s[f[i]]] :
       f \in {g \in [1..Len(s) -> 1..Len(s)] :
                \A i, j \in 1..Len(s) : g[i] = g[j] => i = j}}
SortedByKey(rows) ==
    \A i, j \in 1..Len(rows) :
      i < j => (Key(rows[i]) = Key(rows[j]) \/ KeyLess(Key(rows[i]), Key(rows[j])))
RawWeather == files["weather_data_.json"].table
RawEnergy == files["energy_data_.json"].table
\* the rows lines 123-168 give on raw tables w and e that have all their columns
MergedRowsOf(w, e) == MergeFrames(w, CleanEnergy(e)).rows
MergeDone == Merged /\ ~processed_df.none

\* C11: the merged rows are sorted by city and then by date, and the run gives
\* the same sequence of merged rows on every reordering of the rows of its two
\* raw tables.
C11_MergeOrderIndependent ==
    MergeDone =>
      /\ SortedByKey(merged_df.rows)
      /\ \A pw \in RowOrders(RawWeather.rows), pe \in RowOrders(RawEnergy.rows) :
           MergedRowsOf(Table(RawWeather.cols, pw), Table(RawEnergy.cols, pe))
             = merged_df.rows

Returned(cl) == client = cl /\ cpc = "returned"

\* C12: every row of the frame fetch_noaa_weather returns has both a high and a
\* low temperature; a (city, date) with only one of TMAX / TMIN has no row.
C12_BothTemperaturesPresent ==
    Returned("noaa") =>
      \A i \in 1..Len(result.rows) :
        /\ {"TMAX_F", "TMIN_F"} \subseteq result.cols
        /\ result.rows[i].TMAX_F # NA
        /\ result.rows[i].TMIN_F # NA

\* C13: no row of the frame fetch_eia_energy returns has a missing value; an
\* API row that carries no value is left out.
C13_NoMissingEnergyValue ==
    Returned("eia") =>
      /\ \A i \in 1..Len(result.rows) : result.rows[i].energy_usage # NA
      /\ \A i \in 1..Len(all_data) : all_data[i].value # NA

Cleaned == ppc \in {"validate", "save_report", "merge", "finish", "done"}
\* the readings of the raw energy table that fall on the day of key k
DayReadings(k) ==
    LET m == SelectSeq(RawEnergy.rows,
                       LAMBDA r : r.city = k[1] /\ Normalize(r.date) = k[2])
    IN [i \in 1..Len(m) |-> m[i].energy_consumption_mwh]

\* C14: whenever a non-empty energy table has been cleaned and is handed to
\* the checks and the merge, it has one row per (city, date) and the value of
\* each row is the sum of the raw readings of that city and day.
C14_EnergyCollapsedToDaily ==
    (Cleaned /\ ~IsEmpty(energy_df)) =>
      /\ UniqueKeys(energy_df.rows)
      /\ "energy_consumption_mwh" \in energy_df.cols =>
           \A i \in 1..Len(energy_df.rows) :
             energy_df.rows[i].energy_consumption_mwh
               = SumValues(DayReadings(Key(energy_df.rows[i])))

\* the run is past the checks of lines 137-141, or has raised on its way
PastChecks == ppc \in {"raised", "save_report", "merge", "finish", "done"}
SourceSections(src) ==
    IF src = "weather"
    THEN {"missing_values_weather", "outliers", "freshness_weather"}
    ELSE {"missing_values_energy", "outliers", "freshness_energy"}

\* C15: once the run is past the checks, the quality report has the
\* missing-values, outlier and freshness sections of each source, also when
\* one of the checks failed on a table that lacks a column.
C15_ChecksIndependent ==
    PastChecks =>
      \A src \in {"weather", "energy"} :
        SourceSections(src) \subseteq quality_report.sections

FrameOf(src) == IF src = "weather" THEN weather_df ELSE energy_df
MissingSection(src) ==
    IF src = "weather" THEN quality_report.missing_values_weather
    ELSE quality_report.missing_values_energy
FreshnessSection(src) ==
    IF src = "weather" THEN quality_report.freshness_weather
    ELSE quality_report.freshness_energy
HasSection(name) == name \in quality_report.sections
MissingName(src) ==
    IF src = "weather" THEN "missing_values_weather" ELSE "missing_values_energy"
FreshnessName(src) ==
    IF src = "weather" THEN "freshness_weather" ELSE "freshness_energy"

\* C16: once the run is past the checks, an empty source table has an 'error'
\* entry in its missing-values section and in its freshness section, and a
\* table with rows but no date column has an 'error' entry in its freshness
\* section: the error is in the report, the run has not raised on it.
C16_ErrorsRecordedNotThrown ==
    PastChecks =>
      \A src \in {"weather", "energy"} :
        /\ IsEmpty(FrameOf(src)) =>
             /\ HasSection(MissingName(src)) /\ MissingSection(src).error # ""
             /\ HasSection(FreshnessName(src)) /\ FreshnessSection(src).error # ""
        /\ (~IsEmpty(FrameOf(src)) /\ "date" \notin FrameOf(src).cols) =>
             HasSection(FreshnessName(src)) /\ FreshnessSection(src).error # ""

LatestDate(src) == MaxOf({FrameOf(src).rows[i].date : i \in 1..Len(FrameOf(src).rows)})
FreshnessRan(src) ==
    /\ HasSection(FreshnessName(src))
    /\ ~IsEmpty(FrameOf(src))
    /\ "date" \in FrameOf(src).cols

\* C17: when the freshness check has run on a source table with rows and a
\* date column, days_since_latest_date is the number d of whole days with
\* d days <= now - (latest date of the table) < d + 1 days, and is_stale is
\* true exactly when d > 3: 3 days is not stale, 4 days is, and a latest date
\* exactly 5 days before now gives 5 and stale.
C17_FreshnessDays ==
    \A src \in {"weather", "energy"} :
      FreshnessRan(src) =>
        LET f == FreshnessSection(src)
            d == f.days_since_latest_date
            age == now - LatestDate(src)
        IN /\ f.error = ""
           /\ d * HoursPerDay <= age /\ age < (d + 1) * HoursPerDay
           /\ f.is_stale <=> d > 3
           /\ d = 3 => ~f.is_stale
           /\ d = 4 => f.is_stale
           /\ age = 5 * HoursPerDay => d = 5 /\ f.is_stale

\* C17 witness: one report with a table 3 days old, not stale, and a table
\* 4 days old, stale, the former with an age that is not a whole number of days
C17_Witness ==
    /\ FreshnessRan("weather") /\ FreshnessRan("energy")
    /\ quality_report.freshness_weather.days_since_latest_date = 3
    /\ ~quality_report.freshness_weather.is_stale
    /\ quality_report.freshness_energy.days_since_latest_date = 4
    /\ quality_report.freshness_energy.is_stale
    /\ now - LatestDate("weather") > 3 * HoursPerDay

\* the frame process_and_validate returns, which is also the merged file
MergedOutput == processed_df.table.rows
SameWeather(m, r) ==
    /\ Key(m) = Key(r)
    /\ m.temp_high_c = r.temp_high_c
    /\ m.temp_low_c = r.temp_low_c
SameEnergy(m, r) ==
    Key(m) = Key(r) /\ m.energy_consumption_mwh = r.energy_consumption_mwh
KeptWeather(r) == \E j \in 1..Len(MergedOutput) : SameWeather(MergedOutput[j], r)
KeptEnergy(r) == \E j \in 1..Len(MergedOutput) : SameEnergy(MergedOutput[j], r)
CountedWeather(r) == TempOutlier(r) /\ Key(r) \in Keys(energy_df.rows)
CountedEnergy(r) == EnergyOutlier(r) /\ Key(r) \in Keys(weather_df.rows)

\* C18: after the merge, every weather row counted as a temperature outlier
\* and every energy row counted as an energy outlier (a negative value) whose
\* (city, date) is also in the other frame is a row of the merged output, in
\* the returned frame and in the merged file, with its values unchanged.
C18_OutliersKept ==
    Merged =>
      /\ \A i \in 1..Len(weather_df.rows) :
           CountedWeather(weather_df.rows[i]) => KeptWeather(weather_df.rows[i])
      /\ \A i \in 1..Len(energy_df.rows) :
           CountedEnergy(energy_df.rows[i]) => KeptEnergy(energy_df.rows[i])
      /\ ~processed_df.none => files["merged_data_.csv"].table.rows = MergedOutput

\* C18 witness: a merge of a temperature outlier and of a negative energy
\* value, each with a counterpart, both counted in the report
C18_Witness ==
    /\ Merged
    /\ \E i \in 1..Len(weather_df.rows) : CountedWeather(weather_df.rows[i])
    /\ \E i \in 1..Len(energy_df.rows) : CountedEnergy(energy_df.rows[i])
    /\ <<"temperature_outliers_found", 1>> \in quality_report.outliers
    /\ <<"energy_outliers_found", 1>> \in quality_report.outliers

\* the count the outliers section holds under a key; no key stands for 0
ReportedCount(name) ==
    IF \E p \in quality_report.outliers : p[1] = name
    THEN (CHOOSE p \in quality_report.outliers : p[1] = name)[2]
    ELSE 0
OutsideRange(v) == v # NA /\ (v < -45 \/ v > 55)
AnyTempOutside(r) == OutsideRange(r.temp_high_c) \/ OutsideRange(r.temp_low_c)
NegativeEnergy(r) == r.energy_consumption_mwh # NA /\ r.energy_consumption_mwh < 0

\* C19: when the outlier check has run, the temperature outlier count is the
\* number of weather rows with a high or a low temperature outside
\* [-45, 55], and the energy outlier count is the number of energy rows with
\* a negative value.
C19_OutlierCounts ==
    HasSection("outliers") =>
      /\ ReportedCount("temperature_outliers_found")
           = CountRows(weather_df.rows, AnyTempOutside)
      /\ ReportedCount("energy_outliers_found")
           = CountRows(energy_df.rows, NegativeEnergy)

\* C20: when process_and_validate has returned a second time on the same raw
\* tables and the same clock, the quality report it saved, the frame it
\* returned and the merged file it wrote are those of the first call.
C20_SecondRunSameOutput ==
    calls = 2 =>
      /\ report_file = first_run.report
      /\ processed_df = first_run.frame
      /\ files["merged_data_.csv"] = first_run.merged

\* C20 witness: a second call has returned a merged frame with rows, after a
\* report that counts a missing value and an outlier
C20_Witness ==
    /\ calls = 2
    /\ ~processed_df.none /\ processed_df.table.rows # <<>>
    /\ report_file.present
    /\ report_file.report.outliers # {}
    /\ report_file.report.missing_values_weather.counts # {}

ReachedValidation == "VALIDATING" \in Range(stages)
RunEnded == ppc \in {"raised", "done"}

\* C21: a run that reached validation and has ended has saved a quality
\* report under its run timestamp, also when it ended PARTIAL; and a merged
\* file it wrote has the timestamp of that report in its name.
C21_ReportPersistedAndKeyed ==
    (ReachedValidation /\ RunEnded) =>
      /\ report_file.present
      /\ stamped.report = run_timestamp
      /\ files["merged_data_.csv"].exists => stamped.merged = stamped.report

\* the keys of what the fetcher returned to a daily run, source by source
SourceKeys(src) ==
    Keys(IF src = "weather" THEN all_weather_data ELSE all_energy_data)
SourcesOverlap ==
    mode = "daily" /\ SourceKeys("weather") \cap SourceKeys("energy") # {}

\* C22: a daily pipeline run whose sources returned records with a common
\* (city, date) ends without raising and has written a merged file under its
\* run timestamp that has rows, with the columns of the weather high, the
\* weather low and the energy value.
C22_EndToEndMergedArtifact ==
    (RunEnded /\ SourcesOverlap) =>
      /\ ppc = "done"
      /\ files["merged_data_.csv"].exists
      /\ stamped.merged = run_timestamp
      /\ files["merged_data_.csv"].table.rows # <<>>
      /\ {"temp_high_c", "temp_low_c", "energy_consumption_mwh"}
           \subseteq files["merged_data_.csv"].table.cols

\* every response the current city has had so far is an HTTP 429
OnlyRateLimited == hist # <<>> /\ AllIn(hist, {"rate_limit"})
ErrorLogged(c) == \E e \in log : e.level = "ERROR" /\ e.city = c

\* C23: for either client, a city that has had only 429 responses and has
\* attempts left has waited once per response, is about to retry and has no
\* error-level log entry; once its 5 attempts are used up, an error-level
\* entry for that city is in the log.
C23_RateLimitErrorOnlyAtExhaustion ==
    OnlyRateLimited =>
      IF Len(hist) < Retries
      THEN cpc = "request" /\ Len(waits) = Len(hist) /\ ~ErrorLogged(City)
      ELSE ErrorLogged(City)

\* C24: a city never has more than 5 requests or more than 5 waits, in either
\* client, and every client call returns.
C24_ClientTerminates ==
    /\ [](requests <= Retries /\ Len(waits) <= Retries)
    /\ <>(cpc = "returned")

\* C24 witness: a call that has returned after its last city used all 5
\* requests and all 5 waits
C24_Witness ==
    /\ cpc = "returned"
    /\ requests = Retries
    /\ Len(waits) = Retries

\* C25: in either client the k-th wait of a city lasts the client's initial
\* delay times 2^(k-1), whatever responses caused the waits, and the delay the
\* next wait would last is the initial delay times 2^(number of waits so
\* far): each city starts again from the initial delay.
C25_ExponentialBackoff ==
    client \in {"noaa", "eia"} =>
      /\ \A k \in 1..Len(waits) : waits[k] = InitialBackoff(client) * 2^(k - 1)
      /\ backoff = InitialBackoff(client) * 2^Len(waits)

\* C25 witness: the second city of a weather call has waited three times,
\* after a 429 and after a network error, and the first city had waited too
C25_Witness ==
    /\ client = "noaa" /\ ci = 2
    /\ Len(waits) = 3
    /\ "rate_limit" \in Range(hist)
    /\ "timeout" \in Range(hist)
    /\ Entry("WARNING", cities[1], "rate_limit") \in log

\* the weather client's last response for the current city was a successful
\* one with an empty result list
NoaaGotNoRecords == client = "noaa" /\ hist # <<>> /\ Last(hist) = "ok_empty"

\* C26: after a successful response with zero records the weather client has
\* left the city's retry loop, has added no row for the city, has logged no
\* error for it, and its next step is the next city (or the return after the
\* last city).
C26_ZeroRecordsIsValid ==
    NoaaGotNoRecords =>
      /\ cpc \in {"cityDone", "returned"}
      /\ CityRows(City) = <<>>
      /\ ~ErrorLogged(City)
      /\ cpc = "cityDone" =>
           IF ci < Len(cities) THEN ENABLED NextCity ELSE ENABLED ClientReturn

\* C26 witness: the first city had a zero-record response, and the second
\* city has one after an earlier retry
C26_Witness ==
    /\ NoaaGotNoRecords /\ ci = 2 /\ Len(hist) > 1
    /\ Entry("WARNING", cities[1], "no_records") \in log
    /\ ~ErrorLogged(cities[1])

\* C27: every row of the merged output, as returned and as saved, has a high
\* temperature, a low temperature, an energy value and a temp_avg_c.
C27_RequiredFieldsPresent ==
    MergeDone =>
      \A i \in 1..Len(MergedOutput) :
        /\ MergedOutput[i].temp_high_c # NA
        /\ MergedOutput[i].temp_low_c # NA
        /\ MergedOutput[i].energy_consumption_mwh # NA
        /\ MergedOutput[i].temp_avg_c.num # NA

\* C28: in every row of the merged output with a high and a low temperature,
\* temp_avg_c is exactly (high + low) / 2 of that row, that is, twice the
\* average is high + low; in a row with a missing temperature it is missing.
C28_TempAvgIsMean ==
    MergeDone =>
      \A i \in 1..Len(MergedOutput) :
        LET r == MergedOutput[i]
        IN IF r.temp_high_c # NA /\ r.temp_low_c # NA
           THEN /\ r.temp_avg_c.num # NA
                /\ r.temp_avg_c.den > 0
                /\ 2 * r.temp_avg_c.num = (r.temp_high_c + r.temp_low_c) * r.temp_avg_c.den
           ELSE r.temp_avg_c.num = NA

\* C28 witness: a merged row whose average is not a whole number (60 and 11),
\* next to a row with a missing low temperature
C28_Witness ==
    /\ MergeDone
    /\ \E i \in 1..Len(MergedOutput) :
         /\ MergedOutput[i].temp_avg_c.num # NA
         /\ MergedOutput[i].temp_avg_c.num % 2 = 1
    /\ \E i \in 1..Len(MergedOutput) : MergedOutput[i].temp_low_c = NA

\* a source frame of the run is empty, or the two frames have no common key
NothingToMerge == IsEmpty(weather_df) \/ IsEmpty(energy_df) \/ JoinIsEmpty
ArtifactsChange ==
    \/ files'["merged_data_.csv"] # files["merged_data_.csv"]
    \/ files'["analysis-data.csv"] # files["analysis-data.csv"]

\* C29: a step of a run writes the merged file or analysis-data.csv only when
\* both source frames have rows and their join has rows; so a run with an
\* empty source or an empty join ends with no merged file and with
\* analysis-data.csv as it found it.
C29_RollingOutputKept ==
    /\ [][ArtifactsChange => ~NothingToMerge]_vars
    /\ []((RunEnded /\ NothingToMerge) => ~files["merged_data_.csv"].exists)

\* C29 witness: a run with two non-empty frames and an empty join has ended,
\* and the analysis-data.csv of an earlier run is still there
C29_Witness ==
    /\ ppc = "done"
    /\ ~IsEmpty(weather_df) /\ ~IsEmpty(energy_df) /\ JoinIsEmpty
    /\ files["analysis-data.csv"] = OldAnalysis

====
